---- MODULE Spec2Model ----
(***************************************************************************)
(* Model of the oi-analyzer resilience layer.                              *)
(*                                                                         *)
(*  - the dashboard server (src/unnamed/part_001): the CircuitBreaker      *)
(*    class, retryWithBackoff, the GET /positions fallback chain, the      *)
(*    positions cache and the plain proxy routes;                          *)
(*  - the browser-side TradingBackendService                               *)
(*    (src/src/services/tradingBackend.ts): its public operations.         *)
(*                                                                         *)
(* Node runs every handler on one event loop: a handler runs without       *)
(* interruption from one await to the next, so every action below is one   *)
(* such run-to-completion segment of one request.  Several requests are    *)
(* in flight at once (one per slot) and their segments interleave.         *)
(***************************************************************************)
EXTENDS Integers, Sequences, FiniteSets, TLC

\* ------------------------------------------------------------------------
\* Bounds of the model
\* ------------------------------------------------------------------------
\* number of requests that can be in flight at the same time (Spec); SpecConc
\* has one more
NumReq == 1
\* the clock advances in steps of TickStep ms up to MaxNow ms
TickStep == 10000
MaxNow == 90000
\* upstream position payloads are the empty list and the lists <<1>>..<<MaxPayload>>
MaxPayload == 1
\* a subscription is followed for at most MaxCallbacks callback invocations
MaxCallbacks == 2
\* the backoff formula is evaluated for attempts 1..MaxAttempt
MaxAttempt == 6

\* ------------------------------------------------------------------------
\* Program constants
\* ------------------------------------------------------------------------
\* new CircuitBreaker('Python', 3, 30000) / new CircuitBreaker('Go', 3, 30000)
failureThreshold == 3
resetTimeout == 30000
\* retryWithBackoff(fn, maxRetries = 3)
maxRetries == 3
\* Math.min(1000 * Math.pow(2, attempt), 10000)
baseDelay == 1000
maxDelay == 10000
\* axios.get(..., { timeout: 5000 }) of the positions calls
positionsTimeout == 5000

Slots == 1..NumReq
ConcSlots == 1..(NumReq + 1)
Upstreams == {"go", "python"}
Payloads == {<<>>} \cup {<<p>> : p \in 1..MaxPayload}

Min(a, b) == IF a < b THEN a ELSE b

RECURSIVE Pow2(_)
Pow2(n) == IF n = 0 THEN 1 ELSE 2 * Pow2(n - 1)

\* ------------------------------------------------------------------------
\* State
\* ------------------------------------------------------------------------
VARIABLES
    now,                 \* Date.now(), in ms since the process started
    breaker,             \* breaker[u]: the fields of goBreaker / pythonBreaker
    lastKnownPositions,  \* the positions cache
    lastPositionUpdate,  \* time of the cached snapshot, or Null
    req,                 \* req[r]: the request in slot r (position in its handler)
    goEnabled,           \* tradingBackend.ts: BACKENDS.go.enabled
    useGoAPI,            \* tradingBackend.ts: TradingBackendService.useGoAPI
    streak,              \* history: streak[u] = number of execute() calls on
                         \* breaker u whose wrapped operation failed since
                         \* the last one that succeeded
    lastLive,            \* history: <<S>> when S is the payload of the last
                         \* successful live positions fetch, <<>> before the first
    upstream             \* environment: upstream[u] is what is held fixed about
                         \* the backend behind BACKENDS[u].url

server == <<breaker, lastKnownPositions, lastPositionUpdate, streak, lastLive>>
service == <<goEnabled, useGoAPI>>
vars == <<now, server, service, req, upstream>>

Null == "null"

\* the slot's response before the handler has sent one
NoResponse ==
    [status |-> 0, source |-> Null, reliability |-> Null,
     data |-> <<>>, total_mtm |-> Null, cached_at |-> Null]

\* the errors thrown at the request: that of upstream invocation number
\* `attempt`, of kind "transport" (no answer: refused, reset, timed out) or
\* "application" (the upstream answered with an error status), or the
\* breaker's own "is OPEN" error (kind "open")
ErrorKinds == {"transport", "application"}
NoError == [attempt |-> 0, kind |-> "none"]
InvocationError(attempt, kind) == [attempt |-> attempt, kind |-> kind]
BreakerOpenError == [attempt |-> 0, kind |-> "open"]

\* a slot with no request in it
IdleReq ==
    [op |-> "none", pc |-> "idle", stage |-> "none", attempt |-> 0, due |-> 0,
     goOutcome |-> "none", pyOutcome |-> "none",
     probe |-> FALSE, error |-> NoError,
     sent |-> 0, res |-> NoResponse]

\* constructor(name, failureThreshold, resetTimeout) at time t
NewBreaker(t) == [state |-> "CLOSED", failureCount |-> 0, nextAttempt |-> t]

\* what is held fixed about a backend: nothing (each call may succeed with
\* any payload or fail), that it is down (every call fails), or that it
\* is up and reports the positions `data` (every call succeeds with them)
Unconstrained == [state |-> "varies", data |-> <<>>]
Down == [state |-> "down", data |-> <<>>]
Up(data) == [state |-> "up", data |-> data]

\* a call to backend u may end as a success (ok) or as a failure
Available(u, ok) ==
    \/ upstream[u].state = "varies"
    \/ upstream[u].state = (IF ok THEN "up" ELSE "down")

\* a positions call to backend u may succeed with `payload`
Answers(u, payload) ==
    /\ Available(u, TRUE)
    /\ upstream[u].state = "up" => payload = upstream[u].data

\* the backends whose availability and positions do not change
StableUpstreams == [Upstreams -> {Down} \cup {Up(data) : data \in Payloads}]

\* the state after the modules are loaded, with request slots S,
\* BACKENDS.go.enabled of tradingBackend.ts one of G and the backends one
\* of W
InitOver(S, G, W) ==
    /\ upstream \in W
    /\ goEnabled \in G
    /\ useGoAPI = goEnabled
    /\ now = 0
    /\ breaker = [u \in Upstreams |-> NewBreaker(0)]
    /\ lastKnownPositions = <<>>
    /\ lastPositionUpdate = Null
    /\ req = [r \in S |-> IdleReq]
    /\ streak = [u \in Upstreams |-> 0]
    /\ lastLive = <<>>

InitWith(S, G) == InitOver(S, G, {[u \in Upstreams |-> Unconstrained]})

\* ------------------------------------------------------------------------
\* CircuitBreaker
\* ------------------------------------------------------------------------
\* mutant of Rejects: the comparison with nextAttempt the wrong way round
RejectsFlipped(b, t) == b.state = "OPEN" /\ t > b.nextAttempt

\* mutant of Rejects: calls are rejected for the first half of the window only
RejectsHalfWindow(b, t) == b.state = "OPEN" /\ 2 * t < 2 * b.nextAttempt - resetTimeout

\* execute(), lines 23-28: TRUE when the call is rejected with "is OPEN"
Rejects(b, t) == b.state = "OPEN" /\ t < b.nextAttempt

\* execute(), lines 23-28: the breaker after the gate let the call through
Admit(b, t) == IF b.state = "OPEN" THEN [b EXCEPT !.state = "HALF_OPEN"] ELSE b

\* mutant of onSuccess: the state is kept
onSuccessKeepsState(b) == [b EXCEPT !.failureCount = 0]

\* mutant of onSuccess: the count is kept
onSuccessKeepsCount(b) == [b EXCEPT !.state = "CLOSED"]

onSuccess(b) == [b EXCEPT !.failureCount = 0, !.state = "CLOSED"]

\* mutant of onFailure: > instead of >= in the threshold test
onFailureLate(b, t) ==
    IF b.failureCount + 1 > failureThreshold
    THEN [b EXCEPT !.failureCount = b.failureCount + 1,
                   !.state = "OPEN",
                   !.nextAttempt = t + resetTimeout]
    ELSE [b EXCEPT !.failureCount = b.failureCount + 1]

onFailure(b, t) ==
    IF b.failureCount + 1 >= failureThreshold
    THEN [b EXCEPT !.failureCount = b.failureCount + 1,
                   !.state = "OPEN",
                   !.nextAttempt = t + resetTimeout]
    ELSE [b EXCEPT !.failureCount = b.failureCount + 1]

\* ------------------------------------------------------------------------
\* retryWithBackoff
\* ------------------------------------------------------------------------
\* mutant of Delay: the exponent counts the attempts from 0
DelayFromZero(attempt) == Min(baseDelay * Pow2(attempt - 1), maxDelay)

\* the wait after failed attempt number `attempt`
Delay(attempt) == Min(baseDelay * Pow2(attempt), maxDelay)

\* ------------------------------------------------------------------------
\* GET /positions (server)
\* ------------------------------------------------------------------------
\* JavaScript truthiness of the cache variable: every array, the empty one
\* included, is truthy; only null/undefined would be falsy
Truthy(v) == v # Null

\* res.json(...) / res.status(...).json(...): the handler sends `response`
Reply(q, response) ==
    [q EXCEPT !.pc = "done", !.stage = "none", !.attempt = 0, !.due = 0,
              !.probe = FALSE, !.sent = q.sent + 1, !.res = response]

\* a `source` field the upstream's own body may carry (Null: it has none)
BodySources == {Null, "cache"}

\* { ...body, source: tag }: the key written after the spread wins
SpreadThen(bodySource, tag) == tag

\* the body sent when an upstream answered (lines 181-185 and 198-203)
LiveResponse(u, payload, bodySource) ==
    [status |-> 200,
     source |-> SpreadThen(bodySource, IF u = "go" THEN "go_api" ELSE "python_fallback"),
     reliability |-> IF u = "go" THEN "primary" ELSE "backup",
     data |-> payload, total_mtm |-> "upstream", cached_at |-> Null]

\* catch (pythonError), lines 205-229: cached data if available, else 503
CacheBranch(cache, cachedAt) ==
    IF Truthy(cache)
    THEN [status |-> 200, source |-> "cache", reliability |-> "degraded",
          data |-> cache, total_mtm |-> Null, cached_at |-> cachedAt]
    ELSE [status |-> 503, source |-> "none", reliability |-> Null,
          data |-> <<>>, total_mtm |-> 0, cached_at |-> Null]

\* breaker.execute(() => retryWithBackoff(() => axios.get(...))) up to the
\* first await: the gate, then attempt 1 of the upstream call.  An error
\* caught before (goError) is not read again by the handler.
EnterCall(q, u, b) ==
    [q EXCEPT !.pc = "await", !.stage = u, !.attempt = 1,
              !.due = now + positionsTimeout,
              !.probe = (b.state # "CLOSED"), !.error = NoError]

\* mutant of FallbackToPython: the Python attempt is left out
FallbackSkipsPython(bk, q) ==
    <<bk, Reply(q, CacheBranch(lastKnownPositions, lastPositionUpdate))>>

\* catch (goError), lines 187-229: <<breakers, request>> after the handler
\* turned to Python with breakers bk
FallbackToPython(bk, q) ==
    LET p == bk["python"] IN
    IF Rejects(p, now)
    THEN <<bk, Reply([q EXCEPT !.pyOutcome = "open", !.error = BreakerOpenError],
                     CacheBranch(lastKnownPositions, lastPositionUpdate))>>
    ELSE <<[bk EXCEPT !["python"] = Admit(p, now)], EnterCall(q, "python", p)>>

\* mutant of PositionsStart: when the Go breaker rejects the call the
\* handler answers from the cache branch without trying Python
PositionsStartSkipsPython(r) ==
    /\ req[r].pc = "idle"
    /\ LET g == breaker["go"]
           q == [req[r] EXCEPT !.op = "positions"]
           next == IF Rejects(g, now)
                   THEN <<breaker,
                          Reply([q EXCEPT !.goOutcome = "open", !.error = BreakerOpenError],
                                CacheBranch(lastKnownPositions, lastPositionUpdate))>>
                   ELSE <<[breaker EXCEPT !["go"] = Admit(g, now)],
                          EnterCall(q, "go", g)>>
       IN /\ breaker' = next[1]
          /\ req' = [req EXCEPT ![r] = next[2]]
    /\ UNCHANGED <<now, lastKnownPositions, lastPositionUpdate, streak, lastLive, service, upstream>>

\* the handler from its start to its first await
PositionsStart(r) ==
    /\ req[r].pc = "idle"
    /\ LET g == breaker["go"]
           q == [req[r] EXCEPT !.op = "positions"]
           next == IF Rejects(g, now)
                   THEN FallbackToPython(breaker, [q EXCEPT !.goOutcome = "open",
                                                            !.error = BreakerOpenError])
                   ELSE <<[breaker EXCEPT !["go"] = Admit(g, now)],
                          EnterCall(q, "go", g)>>
       IN /\ breaker' = next[1]
          /\ req' = [req EXCEPT ![r] = next[2]]
    /\ UNCHANGED <<now, lastKnownPositions, lastPositionUpdate, streak, lastLive, service, upstream>>

\* the upstream call of request r succeeds with a body holding `payload`
\* and, when bodySource is not Null, a source field of its own
CallSucceeds(r, payload, bodySource) ==
    /\ req[r].op = "positions" /\ req[r].pc = "await"
    /\ Answers(req[r].stage, payload)
    /\ LET u == req[r].stage
           q == IF u = "go" THEN [req[r] EXCEPT !.goOutcome = "ok", !.error = NoError]
                            ELSE [req[r] EXCEPT !.pyOutcome = "ok", !.error = NoError]
       IN /\ breaker' = [breaker EXCEPT ![u] = onSuccess(breaker[u])]
          /\ req' = [req EXCEPT ![r] = Reply(q, LiveResponse(u, payload, bodySource))]
    /\ lastLive' = <<payload>>
    /\ streak' = [streak EXCEPT ![req[r].stage] = 0]
    /\ UNCHANGED <<now, lastKnownPositions, lastPositionUpdate, service, upstream>>

\* mutant of CallFailsRetry: the loop goes on after the last attempt
CallFailsRetryUnbounded(r, kind) ==
    /\ req[r].op = "positions" /\ req[r].pc = "await"
    /\ Available(req[r].stage, FALSE)
    /\ req' = [req EXCEPT ![r].pc = "sleep",
                          ![r].due = now + Delay(req[r].attempt),
                          ![r].error = InvocationError(req[r].attempt, kind)]
    /\ UNCHANGED <<now, server, service, upstream>>

\* mutant of CallFailsRetry: every failed attempt is reported to the breaker
CallFailsRetryReported(r, kind) ==
    /\ req[r].op = "positions" /\ req[r].pc = "await"
    /\ req[r].attempt # maxRetries
    /\ Available(req[r].stage, FALSE)
    /\ req' = [req EXCEPT ![r].pc = "sleep",
                          ![r].due = now + Delay(req[r].attempt),
                          ![r].error = InvocationError(req[r].attempt, kind)]
    /\ breaker' = [breaker EXCEPT ![req[r].stage] = onFailure(breaker[req[r].stage], now)]
    /\ UNCHANGED <<now, lastKnownPositions, lastPositionUpdate, streak, lastLive, service, upstream>>

\* the upstream call of request r fails with an error of kind `kind`;
\* retryWithBackoff catches it and waits
CallFailsRetry(r, kind) ==
    /\ req[r].op = "positions" /\ req[r].pc = "await"
    /\ req[r].attempt # maxRetries
    /\ Available(req[r].stage, FALSE)
    /\ req' = [req EXCEPT ![r].pc = "sleep",
                          ![r].due = now + Delay(req[r].attempt),
                          ![r].error = InvocationError(req[r].attempt, kind)]
    /\ UNCHANGED <<now, server, service, upstream>>

\* setTimeout fires and the call is made again without counting it
RetryWakeSameAttempt(r) ==
    /\ req[r].op = "positions" /\ req[r].pc = "sleep"
    /\ now >= req[r].due
    /\ req' = [req EXCEPT ![r].pc = "await",
                          ![r].due = now + positionsTimeout,
                          ![r].error = NoError]
    /\ UNCHANGED <<now, server, service, upstream>>

\* setTimeout fires: the next attempt of the loop is made
RetryWake(r) ==
    /\ req[r].op = "positions" /\ req[r].pc = "sleep"
    /\ now >= req[r].due
    /\ req' = [req EXCEPT ![r].pc = "await",
                          ![r].attempt = req[r].attempt + 1,
                          ![r].due = now + positionsTimeout,
                          ![r].error = NoError]
    /\ UNCHANGED <<now, server, service, upstream>>

\* the last attempt fails with an error of kind `kind`: retryWithBackoff
\* throws it, execute() records the failure and rethrows, the handler goes
\* on to its next source
CallFailsFinal(r, kind) ==
    /\ req[r].op = "positions" /\ req[r].pc = "await"
    /\ req[r].attempt = maxRetries
    /\ Available(req[r].stage, FALSE)
    /\ LET u == req[r].stage
           thrown == InvocationError(req[r].attempt, kind)
           bk == [breaker EXCEPT ![u] = onFailure(breaker[u], now)]
           next == IF u = "go"
                   THEN FallbackToPython(bk, [req[r] EXCEPT !.goOutcome = "exhausted",
                                                            !.error = thrown])
                   ELSE <<bk, Reply([req[r] EXCEPT !.pyOutcome = "exhausted",
                                                   !.error = thrown],
                                    CacheBranch(lastKnownPositions, lastPositionUpdate))>>
       IN /\ breaker' = next[1]
          /\ req' = [req EXCEPT ![r] = next[2]]
    /\ streak' = [streak EXCEPT ![req[r].stage] = streak[req[r].stage] + 1]
    /\ UNCHANGED <<now, lastKnownPositions, lastPositionUpdate, lastLive, service, upstream>>

\* ------------------------------------------------------------------------
\* The other routes of the server: plain proxies, no breaker, no cache.
\* Their handlers read and write no state that outlives the request, so
\* each is one step: the request, the upstream's answer and the response.
\* ------------------------------------------------------------------------
ProxyRoutes ==
    {"api_data", "api_history", "api_update_daily",
     "execute_strangle", "close_position", "close_all_positions"}

\* mutant of RouteUpstream: every route is sent to the Go API
RouteAllToGo(route) == "go"

\* the upstream a proxy route calls (BACKENDS.python.url / BACKENDS.go.url)
RouteUpstream(route) ==
    IF route \in {"api_data", "api_history", "api_update_daily"} THEN "python" ELSE "go"

\* res.json(...) or, from the catch, res.status(502).json(...)
ProxyResponse(route, ok) ==
    [NoResponse EXCEPT !.status = IF ok THEN 200 ELSE 502,
                       !.source = RouteUpstream(route)]

\* mutant of Proxy: an accepted order or close request also rewrites the
\* cached positions
ProxyWritesCache(r, route, ok) ==
    /\ req[r].pc = "idle"
    /\ Available(RouteUpstream(route), ok)
    /\ req' = [req EXCEPT ![r] = Reply([req[r] EXCEPT !.op = route],
                                        ProxyResponse(route, ok))]
    /\ lastKnownPositions' = IF RouteUpstream(route) = "go" /\ ok
                              THEN <<MaxPayload>> ELSE lastKnownPositions
    /\ UNCHANGED <<now, breaker, lastPositionUpdate, streak, lastLive, service, upstream>>

\* mutant of Proxy: a failed call is reported to the breaker of the
\* route's upstream
ProxyCountsFailure(r, route, ok) ==
    /\ req[r].pc = "idle"
    /\ Available(RouteUpstream(route), ok)
    /\ req' = [req EXCEPT ![r] = Reply([req[r] EXCEPT !.op = route],
                                        ProxyResponse(route, ok))]
    /\ breaker' = IF ok THEN breaker
                  ELSE [breaker EXCEPT ![RouteUpstream(route)] = onFailure(@, now)]
    /\ UNCHANGED <<now, lastKnownPositions, lastPositionUpdate, streak, lastLive, service, upstream>>

\* a proxied request: one call to the route's upstream, which answers (ok)
\* or fails, and the response
Proxy(r, route, ok) ==
    /\ req[r].pc = "idle"
    /\ Available(RouteUpstream(route), ok)
    /\ LET u == RouteUpstream(route)
           q == [req[r] EXCEPT !.op = route,
                               !.goOutcome = IF u # "go" THEN "none"
                                             ELSE IF ok THEN "ok" ELSE "failed",
                               !.pyOutcome = IF u # "python" THEN "none"
                                             ELSE IF ok THEN "ok" ELSE "failed"]
       IN req' = [req EXCEPT ![r] = Reply(q, ProxyResponse(route, ok))]
    /\ UNCHANGED <<now, server, service, upstream>>

\* the status body of lines 352-392 for the two probe results
StatusResponse(pythonOk, goOk) ==
    [NoResponse EXCEPT !.status = 200, !.source = "status",
                       !.data = <<[python |-> pythonOk, go |-> goOk,
                                   activeBackend |-> "go",
                                   analytics |-> TRUE, execution |-> goOk,
                                   positionManagement |-> goOk,
                                   riskManagement |-> goOk, autoTrading |-> goOk]>>]

\* GET /api/system_status: the Python probe, then the Go probe, then
\* res.json(status)
SystemStatus(r, pythonOk, goOk) ==
    /\ req[r].pc = "idle"
    /\ Available("python", pythonOk) /\ Available("go", goOk)
    /\ LET q == [req[r] EXCEPT !.op = "status",
                               !.pyOutcome = IF pythonOk THEN "ok" ELSE "failed",
                               !.goOutcome = IF goOk THEN "ok" ELSE "failed"]
       IN req' = [req EXCEPT ![r] = Reply(q, StatusResponse(pythonOk, goOk))]
    /\ UNCHANGED <<now, server, service, upstream>>

\* ------------------------------------------------------------------------
\* TradingBackendService (tradingBackend.ts)
\* ------------------------------------------------------------------------
\* JavaScript values of the numeric fields: a number, undefined or NaN
JsNum(n) == [t |-> "number", v |-> n]
Undefined == [t |-> "undefined", v |-> 0]
NaN == [t |-> "NaN", v |-> 0]
IsNum(x) == x.t = "number"

\* a - b, a * b, a + b on JavaScript values
JsSub(a, b) == IF IsNum(a) /\ IsNum(b) THEN JsNum(a.v - b.v) ELSE NaN
JsMul(a, b) == IF IsNum(a) /\ IsNum(b) THEN JsNum(a.v * b.v) ELSE NaN
JsAdd(a, b) == IF IsNum(a) /\ IsNum(b) THEN JsNum(a.v + b.v) ELSE NaN

\* a || b: b when a is falsy (undefined, NaN, 0)
Falsy(x) == ~IsNum(x) \/ x.v = 0
JsOr(a, b) == IF Falsy(a) THEN b ELSE a

\* an array-valued field of a response body: missing, or the list `items`
NoList == [present |-> FALSE, items |-> <<>>]
List(items) == [present |-> TRUE, items |-> items]

\* positions as the Go API and the Python API report them
GoPositions ==
    {[tradingSymbol |-> "X", qty |-> JsNum(q), avg |-> JsNum(1), ltp |-> JsNum(3),
      pnL |-> JsNum(5), product |-> "NRML", exchange |-> "NFO", entryTime |-> "t"] :
       q \in 1..MaxPayload}
PythonPositions ==
    {[tradingsymbol |-> "X", quantity |-> JsNum(q), average_price |-> JsNum(1),
      last_price |-> JsNum(3), product |-> "NRML", exchange |-> "NFO"] :
       q \in 1..MaxPayload}

\* bodies of GET /api/positions (Go): JSON null, or an object with success,
\* positions and totalPnL
GoBody(isNull, success, positions, totalPnL) ==
    [null |-> isNull, success |-> success, positions |-> positions, totalPnL |-> totalPnL]
GoBodies ==
    {GoBody(TRUE, FALSE, NoList, Undefined),
     GoBody(FALSE, FALSE, NoList, Undefined),
     GoBody(FALSE, TRUE, NoList, Undefined),
     GoBody(FALSE, TRUE, List(<<>>), JsNum(0)),
     GoBody(FALSE, TRUE, List(<<>>), Undefined)}
    \cup {GoBody(FALSE, TRUE, List(<<p>>), JsNum(t)) : p \in GoPositions, t \in {0, 5}}

\* bodies of GET /positions (Python): JSON null, or an object with data
PythonBody(isNull, data) == [null |-> isNull, data |-> data]
PythonBodies ==
    {PythonBody(TRUE, NoList), PythonBody(FALSE, NoList), PythonBody(FALSE, List(<<>>))}
    \cup {PythonBody(FALSE, List(<<p>>)) : p \in PythonPositions}

\* what awaiting fetch() and response.json() gives: a throw, or a body
Thrown == [ok |-> FALSE, body |-> GoBody(TRUE, FALSE, NoList, Undefined)]
GoAnswers == {Thrown} \cup {[ok |-> TRUE, body |-> b] : b \in GoBodies}
PythonAnswers ==
    {[ok |-> FALSE, body |-> PythonBody(TRUE, NoList)]}
    \cup {[ok |-> TRUE, body |-> b] : b \in PythonBodies}

\* data.positions.map(...), lines 189-198
NormalizeGo(p) ==
    [tradingsymbol |-> p.tradingSymbol, quantity |-> p.qty, average_price |-> p.avg,
     last_price |-> p.ltp, mtm |-> p.pnL, product |-> p.product,
     exchange |-> p.exchange, orderTime |-> p.entryTime]

\* (data.data || []).map(...), lines 212-218
NormalizePython(p) ==
    [tradingsymbol |-> p.tradingsymbol, quantity |-> p.quantity,
     average_price |-> p.average_price, last_price |-> p.last_price,
     mtm |-> JsMul(JsSub(p.last_price, p.average_price), p.quantity),
     product |-> p.product, exchange |-> p.exchange]

\* positions.reduce((sum, p) => sum + (p.mtm || 0), 0), line 220
RECURSIVE SumMtm(_)
SumMtm(positions) ==
    IF positions = <<>> THEN JsNum(0)
    ELSE JsAdd(SumMtm(SubSeq(positions, 1, Len(positions) - 1)),
               JsOr(positions[Len(positions)].mtm, JsNum(0)))

\* what getPositions() hands to its caller
Resolved(positions, total) ==
    [kind |-> "resolved", positions |-> positions, total_mtm |-> total]

\* mutant of EmptyResult: the catch rethrows, so the promise is rejected
CatchRethrows == [kind |-> "rejected", positions |-> <<>>, total_mtm |-> Undefined]

\* the catch of getPositions, lines 224-227
EmptyResult == Resolved(<<>>, JsNum(0))

\* lines 184-204 once the Go fetch has ended with `answer`: the result, or
\* fall = TRUE when the method goes on to the Python fetch
GoBranch(answer) ==
    LET b == answer.body IN
    IF ~answer.ok \/ b.null THEN [fall |-> FALSE, result |-> EmptyResult]
    ELSE IF ~b.success THEN [fall |-> TRUE, result |-> EmptyResult]
    ELSE IF ~b.positions.present THEN [fall |-> FALSE, result |-> EmptyResult]
    ELSE [fall |-> FALSE,
          result |-> Resolved([i \in 1..Len(b.positions.items) |->
                                  NormalizeGo(b.positions.items[i])],
                              b.totalPnL)]

\* lines 208-227 once the Python fetch has ended with `answer`
PythonBranch(answer) ==
    LET b == answer.body IN
    IF ~answer.ok \/ b.null THEN EmptyResult
    ELSE LET list == IF b.data.present THEN b.data.items ELSE <<>>
             positions == [i \in 1..Len(list) |-> NormalizePython(list[i])]
         IN Resolved(positions, SumMtm(positions))

\* getPositions() up to its first await
GetPositionsStart(r) ==
    /\ req[r].pc = "idle"
    /\ req' = [req EXCEPT ![r].op = "getPositions", ![r].pc = "await",
                          ![r].stage = IF useGoAPI THEN "go" ELSE "python"]
    /\ UNCHANGED <<now, server, service, upstream>>

\* the promise of getPositions() settles with `result`
Settle(q, result) ==
    [q EXCEPT !.pc = "done", !.stage = "none", !.sent = q.sent + 1, !.res = result]

\* the Go fetch of getPositions() ends
GetPositionsGo(r, answer) ==
    /\ req[r].op = "getPositions" /\ req[r].pc = "await" /\ req[r].stage = "go"
    /\ LET g == GoBranch(answer)
           q == [req[r] EXCEPT !.goOutcome = IF answer.ok THEN "ok" ELSE "failed"]
       IN req' = [req EXCEPT ![r] = IF g.fall THEN [q EXCEPT !.stage = "python"]
                                    ELSE Settle(q, g.result)]
    /\ UNCHANGED <<now, server, service, upstream>>

\* the Python fetch of getPositions() ends
GetPositionsPython(r, answer) ==
    /\ req[r].op = "getPositions" /\ req[r].pc = "await" /\ req[r].stage = "python"
    /\ LET q == [req[r] EXCEPT !.pyOutcome = IF answer.ok THEN "ok" ELSE "failed"]
       IN req' = [req EXCEPT ![r] = Settle(q, PythonBranch(answer))]
    /\ UNCHANGED <<now, server, service, upstream>>

\* a || b on string fields: b when a is undefined or empty
StrOr(a, b) == IF a \in {Null, ""} THEN b ELSE a

\* one position of a stream message with the keys the handler reads (Go
\* names and their alternates) and the Python names; Undefined / Null for
\* a key the message does not carry
GoStreamPosition(qty) ==
    [tradingSymbol |-> "X", symbol |-> Null, tradingsymbol |-> Null,
     qty |-> JsNum(qty), quantity |-> Undefined,
     avg |-> JsNum(1), average_price |-> Undefined,
     ltp |-> JsNum(3), last_price |-> Undefined,
     pnL |-> JsNum(5), mtm |-> Undefined, product |-> "NRML", exchange |-> "NFO"]
PythonStreamPosition(quantity) ==
    [tradingSymbol |-> Null, symbol |-> Null, tradingsymbol |-> "X",
     qty |-> Undefined, quantity |-> JsNum(quantity),
     avg |-> Undefined, average_price |-> JsNum(1),
     ltp |-> Undefined, last_price |-> JsNum(3),
     pnL |-> Undefined, mtm |-> JsNum(5), product |-> "NRML", exchange |-> "NFO"]

\* event.data of a stream message: text JSON.parse rejects, or an object
\* with a position list and the total the upstream reports
StreamMessage(parsed, positions, totalPnL, total_mtm) ==
    [parsed |-> parsed, positions |-> positions, totalPnL |-> totalPnL,
     total_mtm |-> total_mtm]
Unparsable == StreamMessage(FALSE, <<>>, Undefined, Undefined)
StreamMessages(u) ==
    {Unparsable}
    \cup (IF u = "go"
          THEN {StreamMessage(TRUE, <<>>, JsNum(0), Undefined)}
               \cup {StreamMessage(TRUE, <<GoStreamPosition(q)>>, JsNum(5), Undefined) :
                       q \in 0..MaxPayload}
          ELSE {StreamMessage(TRUE, <<>>, Undefined, JsNum(0))}
               \cup {StreamMessage(TRUE, <<PythonStreamPosition(q)>>, Undefined, JsNum(5)) :
                       q \in 1..MaxPayload})

\* data.positions.map(...), lines 242-250
NormalizeStream(p) ==
    [tradingsymbol |-> StrOr(p.tradingSymbol, p.symbol),
     quantity |-> JsOr(p.qty, p.quantity),
     average_price |-> JsOr(p.avg, p.average_price),
     last_price |-> JsOr(p.ltp, p.last_price),
     mtm |-> JsOr(p.pnL, p.mtm),
     product |-> p.product, exchange |-> p.exchange]

\* what the handler passes to callback for a parsed message, lines 240-255
Snapshot(message, goAPI) ==
    IF goAPI
    THEN [kind |-> "callback",
          positions |-> [i \in 1..Len(message.positions) |->
                            NormalizeStream(message.positions[i])],
          total_mtm |-> message.totalPnL]
    ELSE [kind |-> "callback", positions |-> message.positions,
          total_mtm |-> message.total_mtm]

\* the error console.error reports from onmessage's catch or from onerror
StreamFailure(kind) == [attempt |-> 0, kind |-> kind]

\* subscribeToPositions(callback): new EventSource(apiUrl)
SubscribeToPositions(r) ==
    /\ req[r].pc = "idle"
    /\ req' = [req EXCEPT ![r].op = "subscribeToPositions", ![r].pc = "await",
                          ![r].stage = IF useGoAPI THEN "go" ELSE "python"]
    /\ UNCHANGED <<now, server, service, upstream>>

\* mutant of OnMessage: messages are handled after close() as well
OnMessageAfterClose(r, message) ==
    /\ req[r].op = "subscribeToPositions" /\ req[r].pc \in {"await", "done"}
    /\ req[r].sent < MaxCallbacks
    /\ req' = [req EXCEPT ![r] =
                 IF message.parsed
                 THEN [@ EXCEPT !.sent = @ + 1, !.res = Snapshot(message, useGoAPI)]
                 ELSE [@ EXCEPT !.error = StreamFailure("parse")]]
    /\ UNCHANGED <<now, server, service, upstream>>

\* eventSource.onmessage: the open stream delivers `message`; sent counts
\* the callback invocations and res is the snapshot of the last one
OnMessage(r, message) ==
    /\ req[r].op = "subscribeToPositions" /\ req[r].pc = "await"
    /\ message \in StreamMessages(req[r].stage)
    /\ req[r].sent < MaxCallbacks
    /\ req' = [req EXCEPT ![r] =
                 IF message.parsed
                 THEN [@ EXCEPT !.sent = @ + 1, !.res = Snapshot(message, useGoAPI)]
                 ELSE [@ EXCEPT !.error = StreamFailure("parse")]]
    /\ UNCHANGED <<now, server, service, upstream>>

\* mutant of OnError: the handler closes the stream
OnErrorCloses(r) ==
    /\ req[r].op = "subscribeToPositions" /\ req[r].pc = "await"
    /\ req' = [req EXCEPT ![r].error = StreamFailure("stream"), ![r].pc = "done",
                          ![r].stage = "none"]
    /\ UNCHANGED <<now, server, service, upstream>>

\* eventSource.onerror: the error is logged; the EventSource reconnects
OnError(r) ==
    /\ req[r].op = "subscribeToPositions" /\ req[r].pc = "await"
    /\ req' = [req EXCEPT ![r].error = StreamFailure("stream")]
    /\ UNCHANGED <<now, server, service, upstream>>

\* the function subscribeToPositions returned is called: eventSource.close()
Unsubscribe(r) ==
    /\ req[r].op = "subscribeToPositions" /\ req[r].pc = "await"
    /\ req' = [req EXCEPT ![r].pc = "done", ![r].stage = "none"]
    /\ UNCHANGED <<now, server, service, upstream>>

\* what a fetch of the service ends with: fetch() or response.json() rejects
\* (sent = FALSE: transport failure), or a response with response.ok = ok
\* whose body reports success (success: true / status: 'success') or not
FetchResults ==
    {[answered |-> FALSE, ok |-> FALSE, success |-> FALSE]}
    \cup {[answered |-> TRUE, ok |-> o, success |-> b] : o \in BOOLEAN, b \in BOOLEAN}

\* an ExecutionResult handed to the caller, and a rejected promise
ExecutionResult(success, message) ==
    [kind |-> "resolved", success |-> success, message |-> message]
Rejection(message) == [kind |-> "rejected", success |-> FALSE, message |-> message]

\* what request q has learnt about backend u once its fetch ended
Contacted(q, u, result) ==
    LET o == IF result.answered /\ result.ok THEN "ok" ELSE "failed"
    IN IF u = "go" THEN [q EXCEPT !.goOutcome = o] ELSE [q EXCEPT !.pyOutcome = o]

\* executeStrangle() up to its first await: buildSymbols, the backend is
\* chosen, the order is sent to it
ExecuteStrangleStart(r) ==
    /\ req[r].pc = "idle"
    /\ req' = [req EXCEPT ![r].op = "executeStrangle", ![r].pc = "await",
                          ![r].stage = IF useGoAPI THEN "go" ELSE "python"]
    /\ UNCHANGED <<now, server, service, upstream>>

\* mutant of ExecutionFailed: the order is sent again, to the other backend
ExecutionFallsBack(q) ==
    [q EXCEPT !.stage = IF q.stage = "go" THEN "python" ELSE "go"]

\* the catch of executeStrangle, lines 301-309
ExecutionFailed(q) == Settle(q, ExecutionResult(FALSE, "Execution failed"))

\* executeViaGo / executeViaPython from the end of the fetch, and the
\* catch of executeStrangle around them
ExecuteStrangleEnds(r, result) ==
    /\ req[r].op = "executeStrangle" /\ req[r].pc = "await"
    /\ LET q == Contacted(req[r], req[r].stage, result)
       IN req' = [req EXCEPT ![r] =
                    IF ~result.answered \/ ~result.ok THEN ExecutionFailed(q)
                    ELSE IF q.stage = "go"
                    THEN Settle(q, ExecutionResult(result.success, "go"))
                    ELSE Settle(q, ExecutionResult(result.success, "python"))]
    /\ UNCHANGED <<now, server, service, upstream>>

CloseOps == {"closePosition", "closeAllPositions"}

\* mutant of RequiresGo: without the Go API the operation reports success
\* and does nothing
SilentNoOp(q) == Settle(q, ExecutionResult(TRUE, "requires Go API"))

\* if (!this.useGoAPI) return { success: false, message: '... require(s) Go API' }
RequiresGo(q) == Settle(q, ExecutionResult(FALSE, "requires Go API"))

\* closePosition() / closeAllPositions() up to the first await
CloseStart(r, op) ==
    /\ req[r].pc = "idle"
    /\ LET q == [req[r] EXCEPT !.op = op]
       IN req' = [req EXCEPT ![r] = IF ~useGoAPI THEN RequiresGo(q)
                                    ELSE [q EXCEPT !.pc = "await", !.stage = "go"]]
    /\ UNCHANGED <<now, server, service, upstream>>

\* the fetch of closePosition() / closeAllPositions() ends: the body is
\* returned as it is, a rejection is rethrown
CloseEnds(r, result) ==
    /\ req[r].op \in CloseOps /\ req[r].pc = "await"
    /\ LET q == Contacted(req[r], "go", result)
       IN req' = [req EXCEPT ![r] =
                    IF ~result.answered THEN Settle(q, Rejection("fetch failed"))
                    ELSE Settle(q, ExecutionResult(result.success, "go"))]
    /\ UNCHANGED <<now, server, service, upstream>>

\* getAnalysis() up to its first await
GetAnalysisStart(r) ==
    /\ req[r].pc = "idle"
    /\ req' = [req EXCEPT ![r].op = "getAnalysis", ![r].pc = "await",
                          ![r].stage = "python"]
    /\ UNCHANGED <<now, server, service, upstream>>

\* the fetch of getAnalysis() ends: a rejection or a response that is not
\* ok is thrown to the caller
GetAnalysisEnds(r, result) ==
    /\ req[r].op = "getAnalysis" /\ req[r].pc = "await"
    /\ LET q == Contacted(req[r], "python", result)
       IN req' = [req EXCEPT ![r] =
                    IF ~result.answered \/ ~result.ok
                    THEN Settle(q, Rejection("Analysis failed"))
                    ELSE Settle(q, ExecutionResult(TRUE, "analysis"))]
    /\ UNCHANGED <<now, server, service, upstream>>

\* the status object of getSystemStatus, lines 416-427
ServiceStatus(kind, pythonAvailable, goAvailable, goAPI) ==
    [kind |-> kind, python |-> pythonAvailable, go |-> goAvailable,
     activeBackend |-> IF goAPI THEN "go" ELSE "python",
     analytics |-> TRUE, execution |-> TRUE,
     positionManagement |-> goAPI, riskManagement |-> goAPI, autoTrading |-> goAPI]

\* getSystemStatus() up to the Python probe
GetSystemStatusStart(r) ==
    /\ req[r].pc = "idle"
    /\ req' = [req EXCEPT ![r].op = "getSystemStatus", ![r].pc = "await",
                          ![r].stage = "python",
                          ![r].res = ServiceStatus("building", FALSE, FALSE, useGoAPI)]
    /\ UNCHANGED <<now, server, service, upstream>>

\* mutant of PythonProbeEnds: a failed Python probe ends the status request
PythonProbeAborts(r, result) ==
    /\ req[r].op = "getSystemStatus" /\ req[r].pc = "await" /\ req[r].stage = "python"
    /\ LET q == [Contacted(req[r], "python", result)
                   EXCEPT !.res.python = result.answered /\ result.ok]
       IN req' = [req EXCEPT ![r] =
                    IF useGoAPI /\ q.res.python THEN [q EXCEPT !.stage = "go"]
                    ELSE Settle(q, [q.res EXCEPT !.kind = "resolved"])]
    /\ UNCHANGED <<now, server, service, upstream>>

\* the Python probe ends; the Go probe is made if useGoAPI, else the status
\* is returned
PythonProbeEnds(r, result) ==
    /\ req[r].op = "getSystemStatus" /\ req[r].pc = "await" /\ req[r].stage = "python"
    /\ LET q == [Contacted(req[r], "python", result)
                   EXCEPT !.res.python = result.answered /\ result.ok]
       IN req' = [req EXCEPT ![r] =
                    IF useGoAPI THEN [q EXCEPT !.stage = "go"]
                    ELSE Settle(q, [q.res EXCEPT !.kind = "resolved"])]
    /\ UNCHANGED <<now, server, service, upstream>>

\* the Go probe ends; the status is returned
GoProbeEnds(r, result) ==
    /\ req[r].op = "getSystemStatus" /\ req[r].pc = "await" /\ req[r].stage = "go"
    /\ LET q == [Contacted(req[r], "go", result)
                   EXCEPT !.res.go = result.answered /\ result.ok]
       IN req' = [req EXCEPT ![r] = Settle(q, [q.res EXCEPT !.kind = "resolved"])]
    /\ UNCHANGED <<now, server, service, upstream>>

\* mutant of EnableGoAPI: the flag follows the argument alone
EnableGoAPIUnchecked(enable) ==
    /\ useGoAPI' = enable
    /\ UNCHANGED <<now, server, goEnabled, req, upstream>>

\* enableGoAPI(enable)
EnableGoAPI(enable) ==
    /\ useGoAPI' = (enable /\ goEnabled)
    /\ UNCHANGED <<now, server, goEnabled, req, upstream>>

\* ------------------------------------------------------------------------
\* CircuitBreaker.execute(fn) for any fn (lines 22-38): callers whose
\* wrapped operation throws at its invocation, or returns a promise that
\* is fulfilled or rejected later
\* ------------------------------------------------------------------------
Invocations == {"throws", "awaits"}

\* the error of the wrapped operation: thrown at the invocation or the
\* reason of its rejected promise
OperationError(kind) == [attempt |-> 1, kind |-> kind]

\* execute() has ended for caller q with `outcome` and, unless NoError, an
\* error thrown to the caller
Ended(q, u, outcome, error) ==
    [q EXCEPT !.pc = "done", !.stage = "none", !.probe = FALSE, !.error = error,
              !.goOutcome = IF u = "go" THEN outcome ELSE q.goOutcome,
              !.pyOutcome = IF u = "python" THEN outcome ELSE q.pyOutcome]

\* mutant of Execute: a rejected call is counted as a failure
ExecuteCountsRejection(r, u, how) ==
    /\ req[r].pc = "idle"
    /\ how = "throws" => Available(u, FALSE)
    /\ LET b == breaker[u]
           q == [req[r] EXCEPT !.op = "execute"]
       IN IF Rejects(b, now)
          THEN /\ breaker' = [breaker EXCEPT ![u] = onFailure(b, now)]
               /\ req' = [req EXCEPT ![r] = Ended(q, u, "open", BreakerOpenError)]
               /\ UNCHANGED streak
          ELSE IF how = "throws"
          THEN /\ breaker' = [breaker EXCEPT ![u] = onFailure(Admit(b, now), now)]
               /\ req' = [req EXCEPT ![r] =
                            Ended(q, u, "failed", OperationError("thrown"))]
               /\ streak' = [streak EXCEPT ![u] = @ + 1]
          ELSE /\ breaker' = [breaker EXCEPT ![u] = Admit(b, now)]
               /\ req' = [req EXCEPT ![r] = [q EXCEPT !.pc = "await", !.stage = u,
                                                      !.probe = (b.state # "CLOSED")]]
               /\ UNCHANGED streak
    /\ UNCHANGED <<now, lastKnownPositions, lastPositionUpdate, lastLive, service, upstream>>

\* execute(fn) from its call to its first await: the gate, then fn(); a
\* throw of fn() is caught at once (lines 34-37)
Execute(r, u, how) ==
    /\ req[r].pc = "idle"
    /\ how = "throws" => Available(u, FALSE)
    /\ LET b == breaker[u]
           q == [req[r] EXCEPT !.op = "execute"]
       IN IF Rejects(b, now)
          THEN /\ req' = [req EXCEPT ![r] = Ended(q, u, "open", BreakerOpenError)]
               /\ UNCHANGED <<breaker, streak>>
          ELSE IF how = "throws"
          THEN /\ breaker' = [breaker EXCEPT ![u] = onFailure(Admit(b, now), now)]
               /\ req' = [req EXCEPT ![r] =
                            Ended(q, u, "failed", OperationError("thrown"))]
               /\ streak' = [streak EXCEPT ![u] = @ + 1]
          ELSE /\ breaker' = [breaker EXCEPT ![u] = Admit(b, now)]
               /\ req' = [req EXCEPT ![r] = [q EXCEPT !.pc = "await", !.stage = u,
                                                      !.probe = (b.state # "CLOSED")]]
               /\ UNCHANGED streak
    /\ UNCHANGED <<now, lastKnownPositions, lastPositionUpdate, lastLive, service, upstream>>

\* mutant of ExecuteSettles: a rejection of the wrapped operation is
\* reported to the caller as the breaker's own error
ExecuteSettlesMasked(r, ok) ==
    /\ req[r].op = "execute" /\ req[r].pc = "await"
    /\ Available(req[r].stage, ok)
    /\ LET u == req[r].stage IN
       IF ok
       THEN /\ breaker' = [breaker EXCEPT ![u] = onSuccess(breaker[u])]
            /\ req' = [req EXCEPT ![r] = Ended(req[r], u, "ok", NoError)]
            /\ streak' = [streak EXCEPT ![u] = 0]
       ELSE /\ breaker' = [breaker EXCEPT ![u] = onFailure(breaker[u], now)]
            /\ req' = [req EXCEPT ![r] = Ended(req[r], u, "failed", BreakerOpenError)]
            /\ streak' = [streak EXCEPT ![u] = @ + 1]
    /\ UNCHANGED <<now, lastKnownPositions, lastPositionUpdate, lastLive, service, upstream>>

\* the promise of the wrapped operation settles: onSuccess() and the
\* result, or onFailure() and the same error rethrown (lines 30-37)
ExecuteSettles(r, ok) ==
    /\ req[r].op = "execute" /\ req[r].pc = "await"
    /\ Available(req[r].stage, ok)
    /\ LET u == req[r].stage IN
       IF ok
       THEN /\ breaker' = [breaker EXCEPT ![u] = onSuccess(breaker[u])]
            /\ req' = [req EXCEPT ![r] = Ended(req[r], u, "ok", NoError)]
            /\ streak' = [streak EXCEPT ![u] = 0]
       ELSE /\ breaker' = [breaker EXCEPT ![u] = onFailure(breaker[u], now)]
            /\ req' = [req EXCEPT ![r] =
                         Ended(req[r], u, "failed", OperationError("rejected"))]
            /\ streak' = [streak EXCEPT ![u] = @ + 1]
    /\ UNCHANGED <<now, lastKnownPositions, lastPositionUpdate, lastLive, service, upstream>>

\* the upstream behind breaker u recovers: from now on every invocation of
\* the wrapped operation succeeds.  It is followed only while the clock of
\* the model can still pass the end of an open window.
Recovers(u) ==
    /\ upstream[u].state = "varies"
    /\ now + resetTimeout + TickStep <= MaxNow
    /\ upstream' = [upstream EXCEPT ![u] = Up(<<>>)]
    /\ UNCHANGED <<now, server, service, req>>

\* the client has its response; the slot is free for the next request
Finish(r) ==
    /\ req[r].pc = "done"
    /\ req' = [req EXCEPT ![r] = IdleReq]
    /\ UNCHANGED <<now, server, service, upstream>>

\* time passes; a due timer fires and a timed-out call fails before it does
Tick ==
    /\ now + TickStep <= MaxNow
    /\ \A r \in DOMAIN req :
         /\ (req[r].op = "positions" /\ req[r].pc = "await") => now + TickStep <= req[r].due
         /\ req[r].pc = "sleep" => now < req[r].due
    /\ now' = now + TickStep
    /\ UNCHANGED <<server, service, req, upstream>>

Next ==
    \/ \E r \in DOMAIN req : PositionsStart(r)
    \/ \E r \in DOMAIN req, payload \in Payloads, bodySource \in BodySources :
          CallSucceeds(r, payload, bodySource)
    \/ \E r \in DOMAIN req, kind \in ErrorKinds : CallFailsRetry(r, kind)
    \/ \E r \in DOMAIN req : RetryWake(r)
    \/ \E r \in DOMAIN req, kind \in ErrorKinds : CallFailsFinal(r, kind)
    \/ \E r \in DOMAIN req, route \in ProxyRoutes, ok \in BOOLEAN : Proxy(r, route, ok)
    \/ \E r \in DOMAIN req, pythonOk \in BOOLEAN, goOk \in BOOLEAN :
          SystemStatus(r, pythonOk, goOk)
    \/ \E r \in DOMAIN req : Finish(r)
    \/ Tick

\* the server, one request at a time per slot of Slots
Init == InitWith(Slots, {FALSE})
Spec == Init /\ [][Next]_vars

\* the positions fetches of the server and of the service side by side
NextFetch ==
    \/ \E r \in DOMAIN req : PositionsStart(r)
    \/ \E r \in DOMAIN req, payload \in Payloads, bodySource \in BodySources :
          CallSucceeds(r, payload, bodySource)
    \/ \E r \in DOMAIN req, kind \in ErrorKinds : CallFailsRetry(r, kind)
    \/ \E r \in DOMAIN req : RetryWake(r)
    \/ \E r \in DOMAIN req, kind \in ErrorKinds : CallFailsFinal(r, kind)
    \/ \E r \in DOMAIN req : GetPositionsStart(r)
    \/ \E r \in DOMAIN req, answer \in GoAnswers : GetPositionsGo(r, answer)
    \/ \E r \in DOMAIN req, answer \in PythonAnswers : GetPositionsPython(r, answer)
    \/ \E r \in DOMAIN req : Finish(r)
    \/ Tick

InitFetch == InitWith(Slots, BOOLEAN)
SpecFetch == InitFetch /\ [][NextFetch]_vars

\* the server with one more request in flight
InitConc == InitWith(ConcSlots, {FALSE})
SpecConc == InitConc /\ [][Next]_vars

\* a positions request that starts while the clock of the model can still
\* run through the waits of both retry loops
PositionsStartInTime(r) ==
    /\ now + 2 * (maxRetries - 1) * TickStep <= MaxNow
    /\ PositionsStart(r)

\* the upstream call of request r ends, with an answer or an error
CallEnds(r) ==
    \/ \E payload \in Payloads, bodySource \in BodySources :
          CallSucceeds(r, payload, bodySource)
    \/ \E kind \in ErrorKinds : CallFailsRetry(r, kind) \/ CallFailsFinal(r, kind)

NextLive ==
    \/ \E r \in DOMAIN req : PositionsStartInTime(r)
    \/ \E r \in DOMAIN req : CallEnds(r)
    \/ \E r \in DOMAIN req : RetryWake(r)
    \/ \E r \in DOMAIN req : Finish(r)
    \/ Tick

\* the positions fetches of the server where every upstream call ends,
\* every timer that is due fires and time passes: other requests, however
\* many, do not hold the clock back for ever (Tick is not enabled while a
\* call is awaited, hence strong fairness)
SpecLive ==
    /\ Init /\ [][NextLive]_vars
    /\ SF_vars(Tick)
    /\ \A r \in Slots : WF_vars(CallEnds(r)) /\ WF_vars(RetryWake(r))

\* the CircuitBreaker class under callers of goBreaker.execute() that overlap
NextBreaker ==
    \/ \E r \in DOMAIN req, how \in Invocations : Execute(r, "go", how)
    \/ \E r \in DOMAIN req, ok \in BOOLEAN : ExecuteSettles(r, ok)
    \/ Recovers("go")
    \/ \E r \in DOMAIN req : Finish(r)
    \/ Tick

SpecBreaker == InitConc /\ [][NextBreaker]_vars

\* ... where time passes, every promise awaited settles, every caller that
\* has its result leaves and execute() keeps being called
SpecBreakerLive ==
    /\ SpecBreaker
    /\ WF_vars(Tick)
    /\ \A r \in ConcSlots :
         /\ WF_vars(Execute(r, "go", "awaits"))
         /\ WF_vars(\E ok \in BOOLEAN : ExecuteSettles(r, ok))
         /\ WF_vars(Finish(r))

\* the positions fetches of the server in front of backends whose
\* availability and positions do not change, with one slot more than Spec so that an answer already given
\* can be set beside the answers of the fetches made after it
NextStable ==
    \/ \E r \in DOMAIN req : PositionsStart(r)
    \/ \E r \in DOMAIN req, payload \in Payloads, bodySource \in BodySources :
          CallSucceeds(r, payload, bodySource)
    \/ \E r \in DOMAIN req, kind \in ErrorKinds : CallFailsRetry(r, kind)
    \/ \E r \in DOMAIN req : RetryWake(r)
    \/ \E r \in DOMAIN req, kind \in ErrorKinds : CallFailsFinal(r, kind)
    \/ \E r \in DOMAIN req : Finish(r)
    \/ Tick

InitStable == InitOver(ConcSlots, {FALSE}, StableUpstreams)
SpecStable == InitStable /\ [][NextStable]_vars

\* the public operations of TradingBackendService, for either value of
\* BACKENDS.go.enabled, beside the server's proxy and status routes
NextSvc ==
    \/ \E r \in DOMAIN req : GetPositionsStart(r)
    \/ \E r \in DOMAIN req, answer \in GoAnswers : GetPositionsGo(r, answer)
    \/ \E r \in DOMAIN req, answer \in PythonAnswers : GetPositionsPython(r, answer)
    \/ \E r \in DOMAIN req : ExecuteStrangleStart(r)
    \/ \E r \in DOMAIN req, result \in FetchResults : ExecuteStrangleEnds(r, result)
    \/ \E r \in DOMAIN req, op \in CloseOps : CloseStart(r, op)
    \/ \E r \in DOMAIN req, result \in FetchResults : CloseEnds(r, result)
    \/ \E r \in DOMAIN req : GetAnalysisStart(r)
    \/ \E r \in DOMAIN req, result \in FetchResults : GetAnalysisEnds(r, result)
    \/ \E r \in DOMAIN req : GetSystemStatusStart(r)
    \/ \E r \in DOMAIN req, result \in FetchResults : PythonProbeEnds(r, result)
    \/ \E r \in DOMAIN req, result \in FetchResults : GoProbeEnds(r, result)
    \/ \E r \in DOMAIN req : SubscribeToPositions(r)
    \/ \E r \in DOMAIN req, u \in Upstreams :
          \E message \in StreamMessages(u) : OnMessage(r, message)
    \/ \E r \in DOMAIN req : OnError(r)
    \/ \E r \in DOMAIN req : Unsubscribe(r)
    \/ \E enable \in BOOLEAN : EnableGoAPI(enable)
    \/ \E r \in DOMAIN req, route \in ProxyRoutes, ok \in BOOLEAN : Proxy(r, route, ok)
    \/ \E r \in DOMAIN req, pythonOk \in BOOLEAN, goOk \in BOOLEAN :
          SystemStatus(r, pythonOk, goOk)
    \/ \E r \in DOMAIN req : Finish(r)

InitSvc == InitWith(Slots, BOOLEAN)
SpecSvc == InitSvc /\ [][NextSvc]_vars

\* ========================================================================
\* Properties
\* ========================================================================
\* request r is inside breaker u's execute(): its wrapped operation (the
\* retry loop around the upstream call) has been invoked and has not ended
InExecute(r, u) ==
    req[r].op = "positions" /\ req[r].pc \in {"await", "sleep"} /\ req[r].stage = u

\* this step contains request r's call of execute() on breaker u
ExecCalled(r, u) ==
    IF u = "go"
    THEN req[r].pc = "idle" /\ req'[r].op = "positions"
    ELSE /\ req[r].pyOutcome = "none" /\ req[r].stage # "python"
         /\ req'[r].op = "positions"
         /\ req'[r].stage = "python" \/ req'[r].pyOutcome # "none"

\* ... and in this step that call invoked the wrapped operation
ExecInvoked(r, u) == ExecCalled(r, u) /\ req'[r].pc = "await" /\ req'[r].stage = u

\* ... and in this step that call was rejected with "Circuit breaker is OPEN"
ExecRejected(r, u) ==
    /\ ExecCalled(r, u)
    /\ IF u = "go" THEN req'[r].goOutcome = "open" ELSE req'[r].pyOutcome = "open"

\* what request r has learnt about upstream u
Outcome(q, u) == IF u = "go" THEN q.goOutcome ELSE q.pyOutcome

\* this step ends request r's execute() on breaker u with a success / with
\* the failure of the wrapped operation
ExecSucceeded(r, u) == InExecute(r, u) /\ Outcome(req'[r], u) = "ok"
ExecFailed(r, u) == InExecute(r, u) /\ Outcome(req'[r], u) = "exhausted"

\* C1: when the failed execute() calls on a breaker since its last success
\* reach failureThreshold, the breaker is Open with its window ahead, and an
\* execute() call made in that window right after is rejected without
\* invoking the wrapped operation.
C1_OpensAtThreshold ==
    [][\A u \in Upstreams :
         /\ (streak[u] = failureThreshold - 1 /\ streak'[u] = failureThreshold)
              => (breaker'[u].state = "OPEN" /\ now' < breaker'[u].nextAttempt)
         /\ \A r \in DOMAIN req :
              (streak[u] = failureThreshold /\ now < breaker[u].nextAttempt
                 /\ ExecCalled(r, u))
              => (ExecRejected(r, u) /\ ~ExecInvoked(r, u))]_vars

C1_Witness ==
    /\ streak["go"] = failureThreshold
    /\ breaker["go"].state = "OPEN" /\ now < breaker["go"].nextAttempt
    /\ \E r \in DOMAIN req : req[r].pc = "done" /\ req[r].goOutcome = "open"

\* C2: an execute() call on a breaker that is Open before nextAttempt is
\* rejected and the upstream is not called.
C2_OpenRejects ==
    [][\A u \in Upstreams, r \in DOMAIN req :
         (breaker[u].state = "OPEN" /\ now < breaker[u].nextAttempt /\ ExecCalled(r, u))
           => (ExecRejected(r, u) /\ ~ExecInvoked(r, u) /\ ~InExecute(r, u)')]_vars

C2_Witness ==
    \E r \in DOMAIN req :
        /\ req[r].pc = "done" /\ req[r].goOutcome = "open" /\ req[r].pyOutcome = "ok"
        /\ breaker["go"].state = "OPEN"

\* C3 (as claimed): at most one call admitted by a breaker that was not
\* Closed (a probe) is outstanding at any time.
C3_SingleProbe ==
    \A u \in Upstreams :
        Cardinality({r \in DOMAIN req : InExecute(r, u) /\ req[r].probe}) <= 1

\* C4 (as claimed): every change of a breaker's state is Closed->Open with
\* the count at the threshold, Open->HalfOpen once nextAttempt is reached,
\* HalfOpen->Closed or HalfOpen->Open.
LegalTransition(a, b) ==
    \/ a.state = b.state
    \/ a.state = "CLOSED" /\ b.state = "OPEN" /\ b.failureCount >= failureThreshold
    \/ a.state = "OPEN" /\ b.state = "HALF_OPEN" /\ now >= a.nextAttempt
    \/ a.state = "HALF_OPEN" /\ b.state = "CLOSED"
    \/ a.state = "HALF_OPEN" /\ b.state = "OPEN"

C4_LegalTransitions ==
    [][\A u \in Upstreams : LegalTransition(breaker[u], breaker'[u])]_vars

\* C5 (as claimed): a probe that succeeds leaves the breaker Closed with
\* failureCount 0, a probe that fails leaves it Open with nextAttempt one
\* reset timeout after the failure, and after any successful execute()
\* failureCount is 0.
C5_ProbeOutcome ==
    [][\A u \in Upstreams, r \in DOMAIN req :
         /\ ExecSucceeded(r, u) => breaker'[u].failureCount = 0
         /\ (req[r].probe /\ ExecSucceeded(r, u))
              => (breaker'[u].state = "CLOSED" /\ breaker'[u].failureCount = 0)
         /\ (req[r].probe /\ ExecFailed(r, u))
              => (breaker'[u].state = "OPEN"
                  /\ breaker'[u].nextAttempt = now + resetTimeout)]_vars

\* C6: in a positions request Python is tried only after the Go attempt
\* failed, the cache is consulted only after both failed, and a request
\* that Go served never contacts Python.
GoFailed(q) == q.goOutcome \in {"open", "exhausted"}
PythonFailed(q) == q.pyOutcome \in {"open", "exhausted"}
PythonTried(q) == q.stage = "python" \/ q.pyOutcome # "none"

C6_FallbackOrder ==
    \A r \in DOMAIN req :
        req[r].op = "positions" =>
            /\ PythonTried(req[r]) => GoFailed(req[r])
            /\ req[r].res.source \in {"cache", "none"}
                 => (GoFailed(req[r]) /\ PythonFailed(req[r]))
            /\ req[r].goOutcome = "ok"
                 => (~PythonTried(req[r]) /\ req[r].res.source = "go_api")
            /\ req[r].stage = "go" => req[r].pyOutcome = "none"

C6_Witness ==
    \E r \in DOMAIN req :
        /\ req[r].op = "positions" /\ req[r].pc = "done"
        /\ req[r].goOutcome = "exhausted" /\ req[r].pyOutcome = "exhausted"
        /\ req[r].res.source = "cache"

\* C7 (as claimed): when both upstreams fail and nothing was ever cached,
\* the response is the empty result with source "none" and a non-success
\* status.
CacheEmpty == lastKnownPositions = <<>> /\ lastPositionUpdate = Null

C7_EmptyWhenNothingCached ==
    \A r \in DOMAIN req :
        (req[r].op = "positions" /\ req[r].pc = "done"
           /\ GoFailed(req[r]) /\ PythonFailed(req[r]) /\ CacheEmpty)
        => /\ req[r].res.source = "none"
           /\ req[r].res.status # 200
           /\ req[r].res.data = <<>>
           /\ req[r].res.total_mtm = 0

\* C8 (as claimed): a response sent after both upstreams failed carries the
\* snapshot of the last successful live fetch, tagged cache / degraded.
C8_ServesLastSnapshot ==
    [][\A r \in DOMAIN req :
         (req[r].pc # "done" /\ req'[r].pc = "done" /\ req'[r].op = "positions"
            /\ GoFailed(req'[r]) /\ PythonFailed(req'[r]) /\ lastLive # <<>>)
         => /\ req'[r].res.source = "cache"
            /\ req'[r].res.reliability = "degraded"
            /\ req'[r].res.status = 200
            /\ req'[r].res.data = lastLive[1]]_vars

CompletesLiveFetch(r) ==
    /\ req[r].op = "positions" /\ req[r].pc = "await"
    /\ req'[r].pc = "done"
    /\ req'[r].res.source \in {"go_api", "python_fallback"}

C9_CacheFrame ==
    [][(<<lastKnownPositions, lastPositionUpdate>>' # <<lastKnownPositions, lastPositionUpdate>>)
         => \E r \in DOMAIN req : CompletesLiveFetch(r)]_vars

C9_Witness ==
    /\ CacheEmpty
    /\ lastLive # <<>>
    /\ \E r \in DOMAIN req :
         /\ req[r].pc = "done" /\ req[r].res.source = "cache"

\* C11 (as claimed): the source tag of a positions response names what
\* served it: go_api iff Go's response was returned, python_fallback iff
\* Python's was, cache iff a cached snapshot was returned, none iff both
\* upstreams failed and no snapshot was available; a source field of the
\* upstream body never replaces the handler's tag.
C11_SourceNamesServer ==
    [][\A r \in DOMAIN req :
         (req[r].pc # "done" /\ req'[r].pc = "done" /\ req'[r].op = "positions")
         => LET q == req'[r] IN
            /\ q.res.source = "go_api" <=> q.goOutcome = "ok"
            /\ q.res.source = "python_fallback" <=> q.pyOutcome = "ok"
            /\ q.res.source = "cache"
                 <=> (GoFailed(q) /\ PythonFailed(q) /\ lastLive # <<>>)
            /\ q.res.source = "none"
                 <=> (GoFailed(q) /\ PythonFailed(q) /\ lastLive = <<>>)]_vars

\* this step is a failed upstream invocation that the retry loop caught /
\* the timer of the retry loop firing
AttemptCaught(r) == req[r].op = "positions" /\ req[r].pc = "await" /\ req'[r].pc = "sleep"
NextAttempt(r) == req[r].op = "positions" /\ req[r].pc = "sleep" /\ req'[r].pc = "await"

\* C12: retryWithBackoff invokes the upstream call at most maxRetries
\* times, one more after each caught failure; the first invocation that
\* succeeds ends the loop and its result (empty or not) is what is
\* returned; when invocation number maxRetries fails, the error thrown is
\* the error of that invocation.
C12_RetryBounded ==
    [][\A r \in DOMAIN req :
         /\ req'[r].attempt <= maxRetries
         /\ AttemptCaught(r)
              => /\ req[r].attempt < maxRetries
                 /\ req'[r].error.attempt = req[r].attempt
         /\ NextAttempt(r) => req'[r].attempt = req[r].attempt + 1
         /\ \A u \in Upstreams :
              /\ ExecSucceeded(r, u)
                   => /\ req'[r].pc = "done"
                      /\ lastLive' # <<>> /\ req'[r].res.data = lastLive'[1]
              /\ ExecFailed(r, u)
                   => /\ req[r].attempt = maxRetries
                      /\ (u = "python") => req'[r].error.attempt = maxRetries]_vars

C12_Witness ==
    /\ lastLive = << <<>> >>
    /\ \E r \in DOMAIN req :
         /\ req[r].pc = "done" /\ req[r].pyOutcome = "exhausted"
         /\ req[r].error = InvocationError(maxRetries, "transport")

C14_ApplicationErrorNotRetried ==
    [][\A r \in DOMAIN req :
         AttemptCaught(r) => req'[r].error.kind # "application"]_vars

\* the routes that place or close orders at the Go upstream
ExecutionRoutes == {"execute_strangle", "close_position", "close_all_positions"}

\* C15 (as claimed): execution and close requests go through the Go
\* breaker: none is sent to Go while the breaker is Open before
\* nextAttempt, and one that fails is counted by the breaker.
C15_ExecutionGatedByBreaker ==
    [][\A r \in DOMAIN req :
         (req[r].pc = "idle" /\ req'[r].op \in ExecutionRoutes)
         => /\ (breaker["go"].state = "OPEN" /\ now < breaker["go"].nextAttempt)
                 => req'[r].goOutcome = "none"
            /\ req'[r].goOutcome = "failed"
                 => breaker'["go"].failureCount = breaker["go"].failureCount + 1]_vars

\* this step is the call of service operation op in slot r
Called(r, op) == req[r].pc = "idle" /\ req'[r].op = op

\* request q has sent, or is sending, a request to backend u
SentTo(q, u) == Outcome(q, u) # "none" \/ (q.pc = "await" /\ q.stage = u)

\* C16: one executeStrangle call sends its order to at most one backend:
\* the backend chosen at the call is the only one contacted, whatever the
\* outcome, and when its fetch ends the call ends.
C16_SingleBackend ==
    [][\A r \in DOMAIN req :
         req'[r].op = "executeStrangle"
         => /\ ~(SentTo(req'[r], "go") /\ SentTo(req'[r], "python"))
            /\ Called(r, "executeStrangle")
                 => SentTo(req'[r], IF useGoAPI THEN "go" ELSE "python")
            /\ (req[r].pc = "await" /\ req'[r] # req[r])
                 => /\ req'[r].pc = "done"
                    /\ Outcome(req'[r], req[r].stage) # "none"]_vars

C16_Witness ==
    \E r \in DOMAIN req :
        /\ req[r].op = "executeStrangle" /\ req[r].pc = "done"
        /\ req[r].goOutcome = "failed" /\ req[r].pyOutcome = "none"
        /\ req[r].res = ExecutionResult(FALSE, "Execution failed")

\* C17 (as claimed): executeStrangle called while the Go API is not enabled
\* returns a failure at once and sends no order to any backend.
C17_NoExecutionWithoutGo ==
    [][\A r \in DOMAIN req :
         (Called(r, "executeStrangle") /\ ~useGoAPI)
         => /\ req'[r].pc = "done"
            /\ req'[r].res.success = FALSE
            /\ ~SentTo(req'[r], "go") /\ ~SentTo(req'[r], "python")]_vars

\* C18: closePosition / closeAllPositions called while the Go API is not
\* enabled return success = false with the "requires Go API" message and
\* send nothing; called while it is enabled they send one request, to Go,
\* and end when it ends.
C18_CloseRequiresGo ==
    [][\A r \in DOMAIN req :
         req'[r].op \in CloseOps
         => /\ ~SentTo(req'[r], "python")
            /\ (req[r].pc = "idle" /\ ~useGoAPI)
                 => /\ req'[r].pc = "done"
                    /\ req'[r].res = ExecutionResult(FALSE, "requires Go API")
                    /\ ~SentTo(req'[r], "go")
            /\ (req[r].pc = "idle" /\ useGoAPI)
                 => (req'[r].pc = "await" /\ req'[r].stage = "go")
            /\ (req[r].pc = "await" /\ req'[r] # req[r])
                 => (req'[r].pc = "done" /\ req'[r].goOutcome # "none")]_vars

C18_Witness ==
    /\ goEnabled /\ ~useGoAPI
    /\ \E r \in DOMAIN req :
         /\ req[r].op = "closeAllPositions" /\ req[r].pc = "done"
         /\ req[r].res.success = FALSE /\ req[r].goOutcome = "none"

\* C19 (as claimed): every public operation of the service ends with a
\* result value, never with a rejected promise.
ServiceOps ==
    {"getAnalysis", "getPositions", "executeStrangle", "getSystemStatus"} \cup CloseOps

C19_ServiceNeverRejects ==
    \A r \in DOMAIN req :
        (req[r].op \in ServiceOps /\ req[r].pc = "done") => req[r].res.kind = "resolved"

\* C20 (as claimed): in a result of getSystemStatus each of the flags
\* execution, positionManagement, riskManagement and autoTrading is true
\* exactly when the probe found the Go API available.
C20_FlagsFollowGoProbe ==
    \A r \in DOMAIN req :
        (req[r].op = "getSystemStatus" /\ req[r].pc = "done")
        => /\ req[r].res.execution = req[r].res.go
           /\ req[r].res.positionManagement = req[r].res.go
           /\ req[r].res.riskManagement = req[r].res.go
           /\ req[r].res.autoTrading = req[r].res.go

\* C21: a status request probes each upstream at most once, the outcome
\* of one probe does not decide whether the other is made nor what it
\* reports, and the request ends with a status whatever the probes did.
C21_ProbesIndependent ==
    [][\A r \in DOMAIN req :
         /\ req'[r].op = "getSystemStatus"
              => /\ (req'[r].pc = "await") => Outcome(req'[r], req'[r].stage) = "none"
                 /\ (req[r].pc = "await" /\ req[r].stage = "python" /\ req'[r] # req[r])
                      => /\ req'[r].res.python = (req'[r].pyOutcome = "ok")
                         /\ IF useGoAPI
                            THEN req'[r].pc = "await" /\ req'[r].stage = "go"
                            ELSE req'[r].pc = "done" /\ req'[r].goOutcome = "none"
                 /\ (req[r].pc = "await" /\ req[r].stage = "go" /\ req'[r] # req[r])
                      => /\ req'[r].res.go = (req'[r].goOutcome = "ok")
                         /\ req'[r].res.python = req[r].res.python
                         /\ req'[r].pyOutcome = req[r].pyOutcome
                         /\ req'[r].pc = "done"
                 /\ (req'[r].pc = "done") => (req'[r].res.kind = "resolved" /\ req'[r].sent = 1)
         /\ (req[r].pc = "idle" /\ req'[r].op = "status")
              => /\ req'[r].pc = "done" /\ req'[r].sent = 1 /\ req'[r].res.status = 200
                 /\ req'[r].pyOutcome # "none" /\ req'[r].goOutcome # "none"
                 /\ req'[r].res.data[1].python = (req'[r].pyOutcome = "ok")
                 /\ req'[r].res.data[1].go = (req'[r].goOutcome = "ok")]_vars

C21_Witness ==
    \E r \in DOMAIN req :
        /\ req[r].op = "getSystemStatus" /\ req[r].pc = "done"
        /\ req[r].pyOutcome = "failed" /\ req[r].goOutcome = "failed"
        /\ req[r].res.kind = "resolved" /\ ~req[r].res.python /\ ~req[r].res.go

\* the analysis fetches: GET /api/data of the server, getAnalysis() of the
\* service
AnalysisOps == {"api_data", "getAnalysis"}

\* C22: an analysis fetch sends requests to Python only; when that call
\* fails the caller gets a failure (502 from the server, a rejection from
\* the service) that carries no cached data; the positions cache is not
\* touched.
C22_AnalysisPythonOnly ==
    [][\A r \in DOMAIN req :
         req'[r].op \in AnalysisOps
         => /\ ~SentTo(req'[r], "go")
            /\ (req[r].pc # "done" /\ req'[r].pc = "done")
                 => /\ req'[r].pyOutcome \in {"ok", "failed"}
                    /\ req'[r].pyOutcome = "failed"
                         => IF req'[r].op = "api_data"
                            THEN /\ req'[r].res.status = 502
                                 /\ req'[r].res.data = <<>>
                                 /\ req'[r].res.cached_at = Null
                            ELSE req'[r].res.kind = "rejected"
                    /\ UNCHANGED <<lastKnownPositions, lastPositionUpdate>>]_vars

C22_Witness ==
    \E r \in DOMAIN req :
        /\ req[r].op = "api_data" /\ req[r].pc = "done"
        /\ req[r].pyOutcome = "failed" /\ req[r].goOutcome = "none"
        /\ req[r].res.status = 502

\* request q holds a positions result: the settled result of getPositions()
\* or the snapshot of the last callback invocation of a subscription
HasSnapshot(q) ==
    \/ q.op = "getPositions" /\ q.pc = "done" /\ q.res.kind = "resolved"
    \/ q.op = "subscribeToPositions" /\ q.sent > 0

\* (last_price - average_price) * quantity of a normalized position
LocalMtm(p) == JsMul(JsSub(p.last_price, p.average_price), p.quantity)

\* C23: every position of every positions result has
\* mtm = (last_price - average_price) * quantity of its own fields.
C23_MtmComputedLocally ==
    \A r \in DOMAIN req :
        HasSnapshot(req[r])
        => \A i \in 1..Len(req[r].res.positions) :
               req[r].res.positions[i].mtm = LocalMtm(req[r].res.positions[i])

\* C24: the total_mtm of every positions result is the sum of the mtm
\* values of its positions.
C24_TotalIsSum ==
    \A r \in DOMAIN req :
        HasSnapshot(req[r]) => req[r].res.total_mtm = SumMtm(req[r].res.positions)

\* C25: a positions fetch whose upstream answered with an empty position
\* list ends as a success with no positions and total_mtm = 0.
C25_EmptyListIsZero ==
    \A r \in DOMAIN req :
        ( /\ req[r].op = "getPositions" /\ req[r].pc = "done"
          /\ "ok" \in {req[r].goOutcome, req[r].pyOutcome}
          /\ req[r].res.positions = <<>> )
        => req[r].res.kind = "resolved" /\ req[r].res.total_mtm = JsNum(0)

\* the fields two normalized records are compared on
Canonical(p) ==
    [tradingsymbol |-> p.tradingsymbol, quantity |-> p.quantity,
     average_price |-> p.average_price, last_price |-> p.last_price, mtm |-> p.mtm]

\* C26: a position normalized from the Go shape equals, on symbol,
\* quantity, average_price, last_price and mtm, the normalization of the
\* Python-shaped position that carries the same values.
C26_ShapesAgree ==
    \A r \in DOMAIN req :
        (req[r].op = "getPositions" /\ req[r].pc = "done")
        => \A i \in 1..Len(req[r].res.positions) :
             LET n == req[r].res.positions[i] IN
             "orderTime" \in DOMAIN n
             => \A p \in PythonPositions :
                  ( /\ p.tradingsymbol = n.tradingsymbol /\ p.quantity = n.quantity
                    /\ p.average_price = n.average_price /\ p.last_price = n.last_price )
                  => Canonical(NormalizePython(p)) = Canonical(n)

\* C27: every position of every positions result is well formed: its
\* symbol is a string and its quantity, average_price and last_price are
\* numbers (the value of the first key present, 0 included, else 0).
C27_NormalizationTotal ==
    \A r \in DOMAIN req :
        HasSnapshot(req[r])
        => \A i \in 1..Len(req[r].res.positions) :
             LET n == req[r].res.positions[i] IN
             /\ n.tradingsymbol # Null
             /\ IsNum(n.quantity) /\ IsNum(n.average_price) /\ IsNum(n.last_price)

\* request q is a positions subscription
Subscribed(q) == q.op = "subscribeToPositions"

\* C29: once unsubscribe has returned the stream is closed and the
\* callback is not invoked again: the number of invocations and the last
\* snapshot stay as they were.
C29_NoCallbackAfterUnsubscribe ==
    [][\A r \in DOMAIN req :
         /\ (Subscribed(req[r]) /\ req[r].pc = "await" /\ req'[r].pc = "done")
              => req'[r].stage = "none" /\ req'[r].sent = req[r].sent
         /\ (Subscribed(req[r]) /\ req[r].pc = "done")
              => \/ req'[r] = req[r]
                 \/ req'[r] = IdleReq]_vars

C29_Witness ==
    \E r \in DOMAIN req :
        /\ Subscribed(req[r]) /\ req[r].pc = "done" /\ req[r].stage = "none"
        /\ req[r].sent > 0 /\ req[r].sent < MaxCallbacks

Answered(q) == q.op = "positions" /\ q.pc = "done"

\* two positions responses carry the same snapshot: same status, source,
\* positions and total_mtm
SameSnapshot(a, b) ==
    /\ a.status = b.status /\ a.source = b.source
    /\ a.data = b.data /\ a.total_mtm = b.total_mtm

C31_FallsBackToPython ==
    \A r \in DOMAIN req :
        (req[r].op = "getPositions" /\ req[r].pc = "done" /\ req[r].goOutcome = "failed")
        => req[r].pyOutcome # "none"

\* C32: the third consecutive positions request in which Go exhausted its
\* retries starts a window of resetTimeout ms; a positions request made in
\* that window sends nothing to Go, whatever Go would answer, and turns to
\* Python, and when Python answers the response is Python's.
C32_OpenGoServedByPython ==
    [][\A r \in DOMAIN req :
         /\ (streak["go"] < failureThreshold /\ streak'["go"] = failureThreshold)
              => breaker'["go"].nextAttempt = now + resetTimeout
         /\ (streak["go"] >= failureThreshold /\ now < breaker["go"].nextAttempt
               /\ Called(r, "positions"))
              => /\ req'[r].goOutcome = "open"
                 /\ req'[r].stage # "go"
                 /\ \/ req'[r].pc = "await" /\ req'[r].stage = "python"
                    \/ req'[r].pyOutcome = "open"
         /\ (req[r].op = "positions" /\ req[r].goOutcome = "open"
               /\ req[r].pc = "await" /\ req'[r].pyOutcome = "ok")
              => /\ req'[r].pc = "done" /\ req'[r].goOutcome = "open"
                 /\ req'[r].res.status = 200
                 /\ req'[r].res.source = "python_fallback"
                 /\ <<req'[r].res.data>> = lastLive']_vars

C32_Witness ==
    \E r \in DOMAIN req :
        /\ req[r].op = "positions" /\ req[r].pc = "done"
        /\ req[r].goOutcome = "open" /\ req[r].pyOutcome = "ok"
        /\ streak["go"] = failureThreshold /\ now < breaker["go"].nextAttempt
        /\ req[r].res.source = "python_fallback" /\ req[r].res.data # <<>>

\* this step ends caller r's execute() on goBreaker with the failure of the
\* wrapped operation: thrown at its invocation, or a rejection awaited
OperationFailed(r) ==
    /\ req[r].pc \in {"idle", "await"}
    /\ req'[r].op = "execute" /\ req'[r].pc = "done" /\ req'[r].goOutcome = "failed"

\* C33: when the wrapped operation fails, by a throw at its invocation or
\* by a rejection, the breaker's failureCount goes up by exactly one and
\* execute() fails with the operation's own error.
C33_FailureRecordedOnce ==
    [][\A r \in DOMAIN req :
         OperationFailed(r)
         => /\ breaker'["go"].failureCount = breaker["go"].failureCount + 1
            /\ req'[r].error =
                 OperationError(IF req[r].pc = "idle" THEN "thrown" ELSE "rejected")]_vars

C33_Witness ==
    \E r \in DOMAIN req :
        /\ req[r].op = "execute" /\ req[r].pc = "done" /\ req[r].goOutcome = "failed"
        /\ req[r].error = OperationError("thrown")
        /\ breaker["go"].state = "OPEN" /\ breaker["go"].failureCount = failureThreshold

\* this step calls, or ends, an execute() of breaker u
Through(u) == \E r \in DOMAIN req : ExecCalled(r, u) \/ ExecSucceeded(r, u) \/ ExecFailed(r, u)

\* C34: a breaker changes only in a step that calls or ends an execute()
\* of that breaker; a step of a request that Go served leaves the Python
\* breaker alone; a step of any request other than a positions fetch
\* leaves both breakers alone.
C34_BreakersIndependent ==
    [][/\ \A u \in Upstreams : breaker'[u] # breaker[u] => Through(u)
       /\ \A r \in DOMAIN req :
            /\ (req'[r] # req[r] /\ req'[r].op = "positions" /\ req'[r].goOutcome = "ok")
                 => breaker'["python"] = breaker["python"]
            /\ (req'[r] # req[r] /\ req'[r].op \in ProxyRoutes \cup {"status"})
                 => breaker' = breaker]_vars

C34_Witness ==
    /\ breaker["go"].state = "OPEN" /\ breaker["python"] = NewBreaker(0)
    /\ \E r \in DOMAIN req :
         /\ req[r].op \in ProxyRoutes /\ req[r].pc = "done" /\ req[r].goOutcome = "failed"

\* min(1000 * 2^k, 10000) written out: 2000, 4000, 8000, then the cap
Backoff(k) == IF k >= 4 THEN 10000 ELSE 1000 * Pow2(k)

\* C35: the wait set after failed attempt k is min(1000 * 2^k, 10000) ms;
\* the waits never exceed the cap and never decrease with k; after the
\* failure of attempt maxRetries no wait is set.
C35_BackoffCapped ==
    [][\A r \in DOMAIN req :
         /\ AttemptCaught(r)
              => /\ req[r].attempt < maxRetries
                 /\ req'[r].due - now = Backoff(req[r].attempt)
                 /\ \A k \in 1..MaxAttempt :
                      /\ Delay(k) = Backoff(k)
                      /\ Delay(k) <= maxDelay
                      /\ Delay(k) <= Delay(k + 1)
         /\ (req[r].op = "positions" /\ req[r].pc = "await"
               /\ req[r].attempt = maxRetries /\ req'[r] # req[r])
              => req'[r].pc # "sleep" /\ req'[r].attempt <= 1]_vars

C35_Witness ==
    \E r \in DOMAIN req :
        /\ req[r].op = "positions" /\ req[r].pc = "sleep"
        /\ req[r].attempt = maxRetries - 1 /\ req[r].due = now + 4000

\* C36: a breaker that is Closed has failureCount below failureThreshold,
\* and one that is Open or HalfOpen has failureCount at or above it, in
\* every state reached by callers that overlap in any way.
C36_CountMatchesState ==
    \A u \in Upstreams :
        IF breaker[u].state = "CLOSED"
        THEN breaker[u].failureCount < failureThreshold
        ELSE breaker[u].failureCount >= failureThreshold

C36_Witness ==
    /\ breaker["go"].state = "HALF_OPEN" /\ breaker["go"].failureCount > failureThreshold
    /\ \E r1 \in DOMAIN req, r2 \in DOMAIN req :
         /\ r1 # r2
         /\ req[r1].op = "execute" /\ req[r1].pc = "await" /\ ~req[r1].probe
         /\ req[r2].op = "execute" /\ req[r2].pc = "await" /\ req[r2].probe

\* C37: a call of execute() that is rejected because the breaker is Open
\* before nextAttempt ends at once with the breaker's error and leaves
\* state, failureCount and nextAttempt as they were.
C37_RejectionLeavesBreaker ==
    [][\A r \in DOMAIN req :
         ( /\ breaker["go"].state = "OPEN" /\ now < breaker["go"].nextAttempt
           /\ req[r].pc = "idle" /\ req'[r].op = "execute" )
         => /\ req'[r].pc = "done" /\ req'[r].goOutcome = "open"
            /\ req'[r].error = BreakerOpenError
            /\ breaker' = breaker]_vars

C37_Witness ==
    \E r \in DOMAIN req :
        /\ req[r].op = "execute" /\ req[r].pc = "done" /\ req[r].goOutcome = "open"
        /\ breaker["go"] = [state |-> "OPEN", failureCount |-> failureThreshold,
                            nextAttempt |-> resetTimeout]
        /\ now > 0

\* from now on every invocation of goBreaker's wrapped operation succeeds
Recovered == upstream["go"].state = "up"

\* C38: once every invocation of the wrapped operation succeeds and
\* execute() keeps being called, the breaker becomes Closed with
\* failureCount = 0 and stays so.
C38_EventuallyClosed ==
    Recovered ~> [](breaker["go"].state = "CLOSED" /\ breaker["go"].failureCount = 0)

C38_Witness ==
    /\ Recovered
    /\ breaker["go"].state = "OPEN" /\ now >= breaker["go"].nextAttempt
    /\ \E r \in DOMAIN req : req[r].op = "execute" /\ req[r].goOutcome = "open"

\* C39: a positions request never makes more than maxRetries calls to the
\* upstream it is at, and every positions request started is answered.
C39_PositionsTerminates ==
    /\ [](\A r \in Slots : req[r].attempt <= maxRetries)
    /\ \A r \in Slots :
         (req[r].op = "positions" /\ req[r].pc # "done")
           ~> (req[r].op = "positions" /\ req[r].pc = "done" /\ req[r].sent = 1)

C39_Witness ==
    \E r \in DOMAIN req :
        /\ req[r].op = "positions" /\ req[r].pc = "done" /\ req[r].sent = 1
        /\ req[r].goOutcome = "exhausted" /\ req[r].pyOutcome = "exhausted"
        /\ req[r].error = InvocationError(maxRetries, "transport")

\* a call of the service, one of its operations or a subscription, that
\* has sent or is sending a request to the Go backend
ServiceContactsGo(q) ==
    /\ q.op \in ServiceOps \cup {"subscribeToPositions"}
    /\ SentTo(q, "go") \/ (q.op = "subscribeToPositions" /\ q.stage = "go")

\* C40: the service's Go routing flag is on only when BACKENDS.go.enabled
\* is true, whatever enableGoAPI calls were made; enableGoAPI(false) always
\* leaves it false; and with go.enabled = false no operation of the service
\* sends a request to the Go backend.
C40_GoFlagNeedsConfig ==
    /\ useGoAPI => goEnabled
    /\ [][/\ useGoAPI' => goEnabled'
          /\ EnableGoAPI(FALSE) => ~useGoAPI'
          /\ ~goEnabled' => \A r \in DOMAIN req : ~ServiceContactsGo(req'[r])]_vars

C40_Witness ==
    /\ goEnabled /\ ~useGoAPI
    /\ \E r \in DOMAIN req :
         /\ req[r].op = "getPositions" /\ req[r].pc = "done"
         /\ req[r].pyOutcome # "none" /\ req[r].goOutcome = "none"

====
